---------------------------- MODULE Spec2Model ----------------------------
(***************************************************************************)
(* A model of the worker adapter libraries (pero-worker-libs):             *)
(*                                                                         *)
(*   worker_adapter/zk_adapter_client.py   the MQ server directory         *)
(*   worker_functions/mq_client.py         MQClient: connect, retry        *)
(*   worker_adapter/worker_adapter.py      WorkerAdapter: send / receive   *)
(*                                                                         *)
(* Python objects that can be aliased (the server lists and the server     *)
(* records in them) live in an explicit heap, so that copying a list and   *)
(* handing out a reference to it are different things in the model.        *)
(***************************************************************************)
EXTENDS Integers, Sequences, FiniteSets, TLC

(***************************************************************************)
(* Bounds of the model.                                                    *)
(***************************************************************************)
\* longest server list the coordination service reports
MaxServers == 2

\* host names of MQ servers, and the ports a server record may carry
\* (0 stands for a missing port: the code tests the port for truth only)
Hosts == {"A", "B"}
Ports == {0, 5671}

\* application threads that read the directory
Readers == {"r1", "r2"}

(***************************************************************************)
(* The heap.  A list object holds a sequence of record ids; a record       *)
(* object holds one server record {'host': ..., 'port': ...}.              *)
(***************************************************************************)
\* Two lists for the directory (the current one and the one replacing it) and
\* one per reader; every list has room for MaxServers + 1 records of its own.
ListIds == 1 .. (2 + Cardinality(Readers))
RecIds == 1 .. ((2 + Cardinality(Readers)) * (MaxServers + 1))
ReaderList == [r1 |-> 3, r2 |-> 4]
OwnRecs(l) == ((l - 1) * (MaxServers + 1) + 1) .. (l * (MaxServers + 1))

ServerRecords == [host : Hosts, port : Ports]

FreeList == [used |-> FALSE, items |-> << >>]
FreeRec == [used |-> FALSE, host |-> "", port |-> 0]

VARIABLES
    lists,            \* heap: list id -> list object
    recs,             \* heap: record id -> record object
    zk_mq_servers,    \* ZkAdapterClient.mq_servers: the id of the current list
    mq_servers_lock,  \* ZkAdapterClient.mq_servers_lock: "free" or its holder
    zk_pc,            \* position of every thread inside the directory code
    w_servers,        \* watch thread: the list handed to _set_mq_servers
    rd_local,         \* reader: the local variable mq_servers of get_mq_servers
    held,             \* reader: the snapshot returned to it, while it keeps it
    snap_log,         \* history: values copied since the list was last replaced
    edited,           \* history: a snapshot copied since then was changed by its caller
    committed         \* history: the value of the list the last update assigned

dirVars == << lists, recs, zk_mq_servers, mq_servers_lock, zk_pc, w_servers,
              rd_local, held, snap_log, edited, committed >>

Watcher == "w"
Threads == Readers \cup {Watcher}

(***************************************************************************)
(* Heap helpers.                                                           *)
(***************************************************************************)
\* the value of a list: the sequence of the records it refers to
Deref(ls, rs, l) ==
    [i \in 1 .. Len(ls[l].items) |->
        [host |-> rs[ls[l].items[i]].host, port |-> rs[ls[l].items[i]].port]]

FreeListIds(ls) == {l \in ListIds : ~ls[l].used}
FreeRecIds(rs) == {r \in RecIds : ~rs[r].used}

\* the n-th smallest member of a set of integers
NthOf(S, n) == CHOOSE x \in S : Cardinality({y \in S : y < x}) = n - 1

\* unreferenced objects are reclaimed: everything not reachable from the roots
Collect(ls, rs, roots) ==
    LET liveLists == roots
        liveRecs == UNION {{ls[l].items[i] : i \in 1 .. Len(ls[l].items)} : l \in liveLists}
    IN  [ls2 |-> [l \in ListIds |-> IF l \in liveLists THEN ls[l] ELSE FreeList],
         rs2 |-> [r \in RecIds |-> IF r \in liveRecs THEN rs[r] ELSE FreeRec]]

Roots(zk, ws, loc, hd) ==
    {zk} \cup ws \cup UNION {loc[t] : t \in Readers} \cup UNION {hd[t] : t \in Readers}


(***************************************************************************)
(* ZkAdapterClient: the directory of MQ servers.                            *)
(***************************************************************************)
\* the children lists the coordination service may report: (host, port)
\* pairs, at most MaxServers of them, no node twice (children are the
\* names of the nodes under one path)
ChildNodes == {<< "A", 0 >>, << "B", 5671 >>}
Children ==
    UNION {{c \in [1 .. n -> ChildNodes] : \A i, j \in 1 .. n : c[i] = c[j] => i = j} :
           n \in 0 .. MaxServers}

\* cf.server_list: one server record per child, in the order given
server_list(children) ==
    [i \in 1 .. Len(children) |-> [host |-> children[i][1], port |-> children[i][2]]]

\* a new list object holding new record objects with the given values
NewList(ls, rs, l, value) ==
    LET ids == [i \in 1 .. Len(value) |-> NthOf(FreeRecIds(rs) \cap OwnRecs(l), i)]
    IN  [ls2 |-> [ls EXCEPT ![l] = [used |-> TRUE, items |-> ids]],
         rs2 |-> [r \in RecIds |->
                    IF \E i \in 1 .. Len(value) : ids[i] = r
                    THEN LET i == CHOOSE j \in 1 .. Len(value) : ids[j] = r
                         IN  [used |-> TRUE, host |-> value[i].host, port |-> value[i].port]
                    ELSE rs[r]],
         id |-> l]

\* copy.copy of a list of records: a new list of the same records
shallow_copy(ls, rs, src, l) ==
    [ls2 |-> [ls EXCEPT ![l] = [used |-> TRUE, items |-> ls[src].items]],
     rs2 |-> rs, id |-> l]

\* copy.deepcopy of a list of records: a new list of new records, equal in value
deepcopy(ls, rs, src, l) == NewList(ls, rs, l, Deref(ls, rs, src))

\* an acquire that does not wait for the lock
never_waits(lock) == TRUE

\* self.mq_servers_lock.acquire() returns once the lock is free
Acquirable(lock) == lock = "free"

\* zk_callback_update_mq_servers: the children are turned into a new list of
\* server records, which is handed to _set_mq_servers; that one starts with
\* self.mq_servers_lock.acquire()
zk_callback_update_mq_servers(children) ==
    /\ zk_pc[Watcher] = "idle"
    /\ LET n == NewList(lists, recs, NthOf(FreeListIds(lists), 1), server_list(children))
       IN  /\ lists' = n.ls2
           /\ recs' = n.rs2
           /\ w_servers' = {n.id}
    /\ Acquirable(mq_servers_lock)
    /\ mq_servers_lock' = Watcher
    /\ zk_pc' = [zk_pc EXCEPT ![Watcher] = "set_assign"]
    /\ UNCHANGED << zk_mq_servers, rd_local, held, snap_log, edited, committed >>

\* _set_mq_servers: self.mq_servers = servers (the list replaced is dropped)
SetAssign ==
    /\ zk_pc[Watcher] = "set_assign"
    /\ \E l \in w_servers :
         LET c == Collect(lists, recs, Roots(l, {}, rd_local, held))
         IN  /\ zk_mq_servers' = l
             /\ committed' = Deref(lists, recs, l)
             /\ lists' = c.ls2
             /\ recs' = c.rs2
    /\ w_servers' = {}
    /\ snap_log' = {}
    /\ edited' = "no"
    /\ zk_pc' = [zk_pc EXCEPT ![Watcher] = "set_release"]
    /\ UNCHANGED << mq_servers_lock, rd_local, held >>

\* _set_mq_servers: self.mq_servers_lock.release()
SetRelease ==
    /\ zk_pc[Watcher] = "set_release"
    /\ mq_servers_lock' = "free"
    /\ zk_pc' = [zk_pc EXCEPT ![Watcher] = "idle"]
    /\ UNCHANGED << lists, recs, zk_mq_servers, w_servers, rd_local, held, snap_log, edited, committed >>

\* get_mq_servers: self.mq_servers_lock.acquire(); the caller has let go of
\* the snapshot it got before
GetAcquire(t) ==
    /\ zk_pc[t] = "idle"
    /\ Acquirable(mq_servers_lock)
    /\ mq_servers_lock' = t
    /\ held' = [held EXCEPT ![t] = {}]
    /\ LET c == Collect(lists, recs, Roots(zk_mq_servers, w_servers, rd_local, held'))
       IN  /\ lists' = c.ls2
           /\ recs' = c.rs2
    /\ zk_pc' = [zk_pc EXCEPT ![t] = "get_copy"]
    /\ UNCHANGED << zk_mq_servers, w_servers, rd_local, snap_log, edited, committed >>

\* get_mq_servers: mq_servers = copy.deepcopy(self.mq_servers)
GetCopy(t) ==
    /\ zk_pc[t] = "get_copy"
    /\ LET c == deepcopy(lists, recs, zk_mq_servers, ReaderList[t])
       IN  /\ lists' = c.ls2
           /\ recs' = c.rs2
           /\ rd_local' = [rd_local EXCEPT ![t] = {c.id}]
           /\ snap_log' = snap_log \cup {Deref(c.ls2, c.rs2, c.id)}
    /\ edited' = IF edited = "yes" THEN "copied again" ELSE edited
    /\ zk_pc' = [zk_pc EXCEPT ![t] = "get_release"]
    /\ UNCHANGED << zk_mq_servers, mq_servers_lock, w_servers, held, committed >>

\* get_mq_servers: self.mq_servers_lock.release(); return mq_servers
GetRelease(t) ==
    /\ zk_pc[t] = "get_release"
    /\ mq_servers_lock' = "free"
    /\ held' = [held EXCEPT ![t] = rd_local[t]]
    /\ rd_local' = [rd_local EXCEPT ![t] = {}]
    /\ zk_pc' = [zk_pc EXCEPT ![t] = "idle"]
    /\ UNCHANGED << lists, recs, zk_mq_servers, w_servers, snap_log, edited, committed >>

(***************************************************************************)
(* What a caller may do to the list it was given: add a record, remove a   *)
(* record, change a record in place.                                       *)
(***************************************************************************)
SnapshotAppend(t) ==
    /\ zk_pc[t] = "idle"
    /\ \E l \in held[t], v \in ServerRecords :
         /\ Len(lists[l].items) <= MaxServers
         /\ LET r == NthOf(FreeRecIds(recs) \cap OwnRecs(l), 1)
            IN  /\ recs' = [recs EXCEPT ![r] = [used |-> TRUE, host |-> v.host, port |-> v.port]]
                /\ lists' = [lists EXCEPT ![l].items = Append(@, r)]
    /\ edited' = IF edited = "no" /\ snap_log # {} THEN "yes" ELSE edited
    /\ UNCHANGED << zk_mq_servers, mq_servers_lock, zk_pc, w_servers, rd_local, held, snap_log, committed >>

SnapshotRemove(t) ==
    /\ zk_pc[t] = "idle"
    /\ \E l \in held[t] :
         /\ lists[l].items # << >>
         /\ LET ls == [lists EXCEPT ![l].items = SubSeq(@, 1, Len(@) - 1)]
                c == Collect(ls, recs, Roots(zk_mq_servers, w_servers, rd_local, held))
            IN  /\ lists' = c.ls2
                /\ recs' = c.rs2
    /\ edited' = IF edited = "no" /\ snap_log # {} THEN "yes" ELSE edited
    /\ UNCHANGED << zk_mq_servers, mq_servers_lock, zk_pc, w_servers, rd_local, held, snap_log, committed >>

SnapshotChange(t) ==
    /\ zk_pc[t] = "idle"
    /\ \E l \in held[t], v \in ServerRecords :
         /\ lists[l].items # << >>
         /\ LET r == lists[l].items[1]
            IN  /\ [host |-> recs[r].host, port |-> recs[r].port] # v
                /\ recs' = [recs EXCEPT ![r] = [used |-> TRUE, host |-> v.host, port |-> v.port]]
    /\ edited' = IF edited = "no" /\ snap_log # {} THEN "yes" ELSE edited
    /\ UNCHANGED << lists, zk_mq_servers, mq_servers_lock, zk_pc, w_servers, rd_local, held, snap_log, committed >>

\* __init__: self.mq_servers = [], then the first report of the watch:
\* run() registers the callback, which is called at once with the children
\* the path has at that time
DirInitReported(children) ==
    LET n == NewList([l \in ListIds |-> FreeList], [r \in RecIds |-> FreeRec], 1,
                     server_list(children))
    IN  /\ lists = n.ls2
        /\ recs = n.rs2
        /\ zk_mq_servers = n.id
        /\ committed = server_list(children)

\* __init__: self.mq_servers_lock = threading.Lock(); self.mq_servers = []
DirInit ==
    /\ DirInitReported(<< >>)
    /\ mq_servers_lock = "free"
    /\ zk_pc = [t \in Threads |-> "idle"]
    /\ w_servers = {}
    /\ rd_local = [t \in Readers |-> {}]
    /\ held = [t \in Readers |-> {}]
    /\ snap_log = {}
    /\ edited = "no"


(***************************************************************************)
(* MQClient (worker_functions/mq_client.py), as inherited by WorkerAdapter. *)
(*                                                                         *)
(* All operations of one client run on one thread, one after the other:    *)
(* op is the operation that runs or ran last, op_state how far it got.     *)
(* The is_open flags of a pika connection or channel change only inside a  *)
(* call made on them (a blocking connection does its I/O in the caller's   *)
(* thread), so they are part of the client's state.                        *)
(***************************************************************************)
\* largest max_retry a caller passes, other than 0 (retry for ever)
MaxRetry == 3

\* pika.connection.ConnectionParameters.DEFAULT_PORT
DEFAULT_PORT == 5672

\* what a broker endpoint does with a connection attempt: refuse the transport
\* connection, accept it and fail to open a channel, or accept both
EndpointStates == {"refuse", "nochannel", "accept"}

NoConnection == [set |-> FALSE, host |-> "", port |-> 0, open |-> FALSE]
NoChannel == [set |-> FALSE, host |-> "", port |-> 0, open |-> FALSE, on_current |-> FALSE]

NoDisconnect == [channel_open |-> FALSE, connection_open |-> FALSE, closes |-> << >>,
                 again |-> FALSE, closes_before |-> << >>]

VARIABLES
    broker,         \* environment: the state of the endpoint on every host
    mq_connection,  \* MQClient.mq_connection
    mq_channel,     \* MQClient.mq_channel; on_current: opened on mq_connection
    op,             \* the client operation that runs, or ran last
    op_state,       \* "none", "running", "returned" or "raised"
    op_exc,         \* the exception a raised operation ended with
    mc_pc,          \* mq_connect: "idle", "iter" (in the for loop) or "done"
    mc_snapshot,    \* mq_connect: the list the for loop iterates
    mc_i,           \* mq_connect: index of the next server of the list
    mc_tried,       \* history: what the endpoints this mq_connect tried did, in order
    cr_pc,          \* mq_connect_retry: "idle", "test", "connect", "after", "final"
    max_retry,      \* mq_connect_retry: its parameter
    retry_count,    \* mq_connect_retry: its local counter
    cr_trace,       \* history: the connects and sleeps of this mq_connect_retry
    cr_open_at_call,\* history: connection and channel were open at its call
    disconnect      \* history: the last mq_disconnect: what was open at its
                    \* call, what it closed, in order, and the same for the
                    \* mq_disconnect that returned right before it; cleared
                    \* when mq_connect or mq_connect_retry is called

connVars == << broker, mq_connection, mq_channel, op, op_state, op_exc, mc_pc,
               mc_snapshot, mc_i, mc_tried, cr_pc, max_retry, retry_count,
               cr_trace, cr_open_at_call, disconnect >>

\* a test that is content with an open connection
connection_only(conn, chan) == conn.set /\ conn.open

\* the test of mq_connect_retry (lines 87 and 104): self.mq_connection and
\* self.mq_connection.is_open and self.mq_channel and self.mq_channel.is_open
IsConnected(conn, chan) == conn.set /\ conn.open /\ chan.set /\ chan.open

\* port=server['port'] if server['port'] else DEFAULT_PORT
EffectivePort(server) == IF server.port # 0 THEN server.port ELSE DEFAULT_PORT

\* the list MQClient.get_mq_servers returns, which WorkerAdapter overrides:
\* the client's own self.mq_servers, [] since __init__
own_mq_servers == << >>

\* WorkerAdapter.get_mq_servers: the copy ZkAdapterClient.get_mq_servers
\* makes under the lock, as a value
get_mq_servers == Deref(lists, recs, zk_mq_servers)

\* an operation of the client may start when none is running
Callable == op_state # "running"

\* the endpoint on host h changes what it does with the next client
EndpointChange(h) ==
    /\ \E st \in EndpointStates :
         /\ broker[h] # st
         /\ broker' = [broker EXCEPT ![h] = st]
    /\ UNCHANGED << mq_connection, mq_channel, op, op_state, op_exc, mc_pc,
                    mc_snapshot, mc_i, mc_tried, cr_pc, max_retry, retry_count,
                    cr_trace, cr_open_at_call, disconnect >>

BrokerChange == \E h \in Hosts : EndpointChange(h)

\* mq_connect, line 55: for server in self.get_mq_servers()
McBegin ==
    /\ mq_servers_lock = "free"
    /\ mc_snapshot' = get_mq_servers
    /\ mc_i' = 1
    /\ mc_tried' = << >>
    /\ mc_pc' = "iter"

\* a direct call of mq_connect
mq_connect ==
    /\ Callable
    /\ op' = "mq_connect"
    /\ op_state' = "running"
    /\ op_exc' = ""
    /\ McBegin
    /\ disconnect' = NoDisconnect
    /\ UNCHANGED << broker, mq_connection, mq_channel, cr_pc, max_retry,
                    retry_count, cr_trace, cr_open_at_call >>

\* mq_connect that goes on down the list after an endpoint took the client
never_breaks(st) == "iter"

\* mq_connect, lines 71-75: except AMQPError: continue / else: break
AfterAttempt(st) == IF st = "accept" THEN "done" ELSE "iter"

\* mq_connect, lines 56-75: one pass of the for loop.  A refused transport
\* connection leaves both attributes as they were; a channel that cannot be
\* opened leaves the new connection in self.mq_connection.
McAttempt ==
    /\ mc_pc = "iter"
    /\ mc_i <= Len(mc_snapshot)
    /\ LET server == mc_snapshot[mc_i]
           st == broker[server.host]
           conn == [set |-> TRUE, host |-> server.host,
                    port |-> EffectivePort(server), open |-> TRUE]
       IN  /\ mq_connection' = IF st = "refuse" THEN mq_connection ELSE conn
           /\ mq_channel' =
                IF st = "accept"
                THEN [set |-> TRUE, host |-> server.host, port |-> EffectivePort(server),
                      open |-> TRUE, on_current |-> TRUE]
                ELSE IF st = "nochannel"
                THEN [mq_channel EXCEPT !.on_current = FALSE]
                ELSE mq_channel
           /\ mc_tried' = Append(mc_tried, [host |-> server.host,
                                             port |-> EffectivePort(server),
                                             outcome |-> st])
           /\ mc_pc' = AfterAttempt(st)
    /\ mc_i' = mc_i + 1
    /\ UNCHANGED << broker, op, op_state, op_exc, mc_snapshot, cr_pc, max_retry,
                    retry_count, cr_trace, cr_open_at_call, disconnect >>

\* mq_connect returns: after the break, or when the list is exhausted.  To
\* mq_connect_retry it returns nothing, and its locals are gone.
McReturn ==
    /\ \/ mc_pc = "done"
       \/ mc_pc = "iter" /\ mc_i > Len(mc_snapshot)
    /\ mc_pc' = "idle"
    /\ IF op = "mq_connect_retry"
       THEN /\ cr_pc' = "after"
            /\ mc_snapshot' = << >>
            /\ mc_i' = 1
            /\ mc_tried' = << >>
            /\ UNCHANGED op_state
       ELSE /\ op_state' = "returned"
            /\ UNCHANGED << cr_pc, mc_snapshot, mc_i, mc_tried >>
    /\ UNCHANGED << broker, mq_connection, mq_channel, op, op_exc, max_retry,
                    retry_count, cr_trace, cr_open_at_call, disconnect >>

\* the history of one mq_connect_retry; it stops growing at 2 * MaxRetry
\* entries, which only a call that retries for ever can reach
Record(trace, event) == IF Len(trace) < 2 * MaxRetry THEN Append(trace, event) ELSE trace

\* mq_connect_retry(max_retry = n), lines 85: retry_count = 0
mq_connect_retry(n) ==
    /\ Callable
    /\ op' = "mq_connect_retry"
    /\ op_state' = "running"
    /\ op_exc' = ""
    /\ max_retry' = n
    /\ retry_count' = 0
    /\ cr_pc' = "test"
    /\ cr_trace' = << >>
    /\ cr_open_at_call' = IsConnected(mq_connection, mq_channel)
    /\ disconnect' = NoDisconnect
    /\ UNCHANGED << broker, mq_connection, mq_channel, mc_pc, mc_snapshot, mc_i, mc_tried >>

\* mq_connect_retry that sleeps before its first attempt, too
always_sleeps(count) == TRUE

\* line 89: if retry_count != 0, before time.sleep(retry_interval)
SleepsFirst(count) == count # 0

\* lines 87-97: the loop test holds; sleep unless this is the first pass,
\* then call mq_connect
RetryLoop ==
    /\ cr_pc = "test"
    /\ ~IsConnected(mq_connection, mq_channel)
    /\ cr_trace' = IF SleepsFirst(retry_count)
                   THEN Record(Record(cr_trace, "sleep"), "connect")
                   ELSE Record(cr_trace, "connect")
    /\ McBegin
    /\ cr_pc' = "connect"
    /\ UNCHANGED << broker, mq_connection, mq_channel, op, op_state, op_exc,
                    max_retry, retry_count, cr_open_at_call, disconnect >>

\* line 87: the loop test fails, the loop ends
RetryConnected ==
    /\ cr_pc = "test"
    /\ IsConnected(mq_connection, mq_channel)
    /\ cr_pc' = "final"
    /\ UNCHANGED << broker, mq_connection, mq_channel, op, op_state, op_exc, mc_pc,
                    mc_snapshot, mc_i, mc_tried, max_retry, retry_count, cr_trace,
                    cr_open_at_call, disconnect >>

\* retry_count += 1.  Python's integer does not overflow; the model stops
\* counting at MaxRetry + 1, a value the code tells from no smaller one
\* (it compares retry_count with 0 and with max_retry <= MaxRetry only).
NextRetryCount(c) == IF c <= MaxRetry THEN c + 1 ELSE c

\* a limit that is reached as soon as that many attempts were made, 0 included
at_least(limit, count) == count >= limit

\* line 101: if max_retry and retry_count == max_retry
Exhausted(limit, count) == limit # 0 /\ count = limit

\* lines 98-102: count the attempt; break when max_retry attempts were made
RetryAfter ==
    /\ cr_pc = "after"
    /\ retry_count' = NextRetryCount(retry_count)
    /\ cr_pc' = IF Exhausted(max_retry, retry_count') THEN "final" ELSE "test"
    /\ UNCHANGED << broker, mq_connection, mq_channel, op, op_state, op_exc, mc_pc,
                    mc_snapshot, mc_i, mc_tried, max_retry, cr_trace, cr_open_at_call,
                    disconnect >>

\* lines 104-105: raise ConnectionError unless connection and channel are open
RetryFinal ==
    /\ cr_pc = "final"
    /\ cr_pc' = "idle"
    /\ IF IsConnected(mq_connection, mq_channel)
       THEN /\ op_state' = "returned"
            /\ op_exc' = ""
       ELSE /\ op_state' = "raised"
            /\ op_exc' = "ConnectionError"
    /\ UNCHANGED << broker, mq_connection, mq_channel, op, mc_pc, mc_snapshot,
                    mc_i, mc_tried, max_retry, retry_count, cr_trace, cr_open_at_call,
                    disconnect >>

\* a disconnect that closes the connection before the channel
connection_first == << "connection", "channel" >>

\* mq_disconnect, lines 112-116: the channel, then the connection
CloseOrder == << "channel", "connection" >>

\* mq_disconnect, lines 112-116: each close is called if the object is there
\* and open.  A close that fails (the transport is gone) raises, and nothing
\* after it is called; pika then holds the object closed.
mq_disconnect ==
    /\ Callable
    /\ op' = "mq_disconnect"
    /\ \E fails \in {"none", "channel", "connection"} :
         LET chanOpen == mq_channel.set /\ mq_channel.open
             connOpen == mq_connection.set /\ mq_connection.open
             IsOpen(x) == IF x = "channel" THEN chanOpen ELSE connOpen
             fails1 == IsOpen(CloseOrder[1]) /\ fails = CloseOrder[1]
             called2 == ~fails1 /\ IsOpen(CloseOrder[2])
             fails2 == called2 /\ fails = CloseOrder[2]
             untouched == fails1 /\ CloseOrder[1] = "channel" /\ ~mq_channel.on_current
         IN  /\ fails # "none" => IsOpen(fails)
             /\ mq_channel' = [mq_channel EXCEPT !.open = FALSE]
             /\ mq_connection' = IF untouched THEN mq_connection
                                 ELSE [mq_connection EXCEPT !.open = FALSE]
             /\ op_state' = IF fails1 \/ fails2 THEN "raised" ELSE "returned"
             /\ op_exc' = IF fails1 \/ fails2 THEN "AMQPError" ELSE ""
             /\ disconnect' =
                  [channel_open |-> chanOpen,
                   connection_open |-> connOpen,
                   closes |-> (IF IsOpen(CloseOrder[1]) THEN << CloseOrder[1] >> ELSE << >>)
                              \o (IF called2 THEN << CloseOrder[2] >> ELSE << >>),
                   again |-> op = "mq_disconnect" /\ op_state = "returned",
                   closes_before |-> IF op = "mq_disconnect" /\ op_state = "returned"
                                     THEN disconnect.closes ELSE << >>]
    /\ UNCHANGED << broker, mc_pc, mc_snapshot, mc_i, mc_tried, cr_pc, max_retry,
                    retry_count, cr_trace, cr_open_at_call >>

ConnInit ==
    /\ broker = [h \in Hosts |-> "refuse"]
    /\ mq_connection = NoConnection
    /\ mq_channel = NoChannel
    /\ op = "none"
    /\ op_state = "none"
    /\ op_exc = ""
    /\ mc_pc = "idle"
    /\ mc_snapshot = << >>
    /\ mc_i = 1
    /\ mc_tried = << >>
    /\ cr_pc = "idle"
    /\ max_retry = 0
    /\ retry_count = 0
    /\ cr_trace = << >>
    /\ cr_open_at_call = FALSE
    /\ disconnect = NoDisconnect

(***************************************************************************)
(* The worker adapter: requests, the clock, mq_send_request and the loop    *)
(* that uploads requests (worker_adapter.py).                               *)
(***************************************************************************)

MaxStages == 3
MaxErrors == 12
max_error_count == 10

Requests == {"p1", "p2", "p3"}
NoRequest == "none"
Queues == {"ocr", "lost", "out"}
ExistingQueues == {"ocr", "out"}
OutputQueues == {"out", "ocr"}

\* the instants the clock shows, in microseconds since the epoch
Instants == {999999, 1000000}

\* start_time of a request no one has sent: protobuf's default Timestamp
NoTimestamp == [seconds |-> 0, nanos |-> 0]

\* the requests the application holds when the adapter starts
InitialRequests ==
    [p \in Requests |->
        [processing_stages |-> IF p = "p1" THEN << "ocr" >>
                               ELSE IF p = "p2" THEN << "lost", "ocr" >>
                               ELSE << >>,
         start_time |-> NoTimestamp]]

NoPublish == [sent |-> FALSE, routing_key |-> "", processing_stages |-> << >>,
              start_time |-> NoTimestamp, mandatory |-> FALSE]

NoSend == [request |-> NoRequest, output_queue_name |-> "", stages_before |-> << >>,
           started |-> 0, returned |-> {}, exc |-> "", failures |-> 0,
           original |-> << >>, start_time_before |-> NoTimestamp]

NoScene == [connected |-> FALSE, endpoint_up |-> FALSE, routable |-> FALSE,
            error_count |-> 0, max_retry |-> 0]

NoFailure == [kind |-> "none", before |-> 0, asked |-> FALSE, slept |-> FALSE]

\* values a caller passes for the constructor's max_error_count, line 44
ErrorLimits == {1, 10}

VARIABLES
    now,            \* environment: the clock, in microseconds
    reqs,           \* the application's ProcessingRequest objects
    publish,        \* the last basic_publish call the channel got
    send,           \* history: the last mq_send_request call and what it returned;
                    \* failures: how many calls with the same request and
                    \* output queue, each ended by a transport error, came
                    \* right before it; original: the stages of the request
                    \* before the first of them
    error_count,    \* WorkerAdapter.error_count
    notified,       \* subjects handed to mail_client.send_mail_notification
    return_code,    \* start_uploading_requests / start_receiving_results: return_code
    sl_pc,          \* the upload loop: "idle", "get", "connect", "fatal" or "return"
    sl_request,     \* the upload loop: processing_request
    sl_interrupted, \* history: KeyboardInterrupt ended the loop
    sl_iteration,   \* history: "none", "empty" (get_request returned nothing),
                    \* "get failed", "open" (a request was obtained) or "over"
    sl_scene,       \* history: what the iteration met when it went to connect
    confirm_calls,  \* how often confirm_send was called with each request
    report_calls,   \* how often report_error was called with each request
                    \* (lines 320-384 make these calls; no run gets past the
                    \* connect of lines 302-306, see SlConnect)
    failure,        \* history: the last failure a loop handled: its kind, the
                    \* counter before it, whether send_mail_notification was
                    \* called for it, whether the loop slept after it
    arg_max_error_count
                    \* the max_error_count the constructor was called with

sendVars == << now, reqs, publish, send, error_count, notified, return_code, sl_pc,
               sl_request, sl_interrupted, sl_iteration, sl_scene, confirm_calls,
               report_calls, failure, arg_max_error_count >>

\* Timestamp.FromDatetime: whole seconds, and the rest in nanoseconds
FromDatetime(dt) == [seconds |-> dt \div 1000000, nanos |-> (dt % 1000000) * 1000]

\* the name of the last stage
last_stage(processing_stages) == processing_stages[Len(processing_stages)]

\* mq_send_request, line 226: the name of the first stage
input_queue_name(processing_stages) == processing_stages[1]

\* what basic_publish can do on self.mq_channel: without a channel the
\* attribute access fails; on a channel that is not open, and on one whose
\* endpoint is gone, pika raises; on a live endpoint the transport may
\* still fail.  The channel is not in confirm mode (mq_connect never asks
\* for it), so a message no queue takes is not reported by an exception.
PublishOutcomes ==
    IF ~mq_channel.set THEN {"AttributeError"}
    ELSE IF ~mq_channel.open THEN {"AMQPError"}
    ELSE IF broker[mq_channel.host] # "accept" THEN {"AMQPError"}
    ELSE {"ok", "AMQPError"}

\* the call repeats the last call of mq_send_request, which a transport
\* error ended: the application hands the same request object to
\* mq_send_request again, after a new connect or without one
Resent(r, o) ==
    /\ send.exc = "AMQPError"
    /\ send.request = r
    /\ send.output_queue_name = o

\* mq_send_request(processing_request = r, output_queue_name = o), called
\* by the owner of the adapter
mq_send_request(r, o) ==
    /\ Callable
    /\ Len(reqs[r].processing_stages) < MaxStages
    /\ op' = "mq_send_request"
    /\ IF reqs[r].processing_stages = << >>
       THEN /\ op_state' = "raised"
            /\ op_exc' = "IndexError"
            /\ send' = [request |-> r, output_queue_name |-> o,
                        stages_before |-> << >>, started |-> now, returned |-> {},
                        exc |-> "IndexError", failures |-> 0, original |-> << >>,
                        start_time_before |-> reqs[r].start_time]
            /\ UNCHANGED << now, reqs, publish, mq_connection, mq_channel >>
       ELSE \E timestamp \in Instants, outcome \in PublishOutcomes :
              LET stages == reqs[r].processing_stages
                  sent == [processing_stages |-> Append(stages, o),
                           start_time |-> FromDatetime(timestamp)]
                  lost == outcome = "AMQPError" /\ mq_channel.open
              IN  /\ timestamp >= now
                  /\ now' = timestamp
                  /\ reqs' = [reqs EXCEPT ![r] = sent]
                  /\ publish' =
                       IF outcome = "AttributeError"
                       THEN publish
                       ELSE [sent |-> outcome = "ok",
                             routing_key |-> input_queue_name(stages),
                             processing_stages |-> sent.processing_stages,
                             start_time |-> sent.start_time,
                             mandatory |-> TRUE]
                  /\ mq_channel' = IF lost THEN [mq_channel EXCEPT !.open = FALSE]
                                   ELSE mq_channel
                  /\ mq_connection' =
                       IF lost /\ mq_channel.on_current
                       THEN [mq_connection EXCEPT !.open = FALSE]
                       ELSE mq_connection
                  /\ op_state' = IF outcome = "ok" THEN "returned" ELSE "raised"
                  /\ op_exc' = IF outcome = "ok" THEN "" ELSE outcome
                  /\ send' = [request |-> r, output_queue_name |-> o,
                              stages_before |-> stages, started |-> now,
                              returned |-> IF outcome = "ok" THEN {timestamp} ELSE {},
                              exc |-> IF outcome = "ok" THEN "" ELSE outcome,
                              failures |-> IF Resent(r, o) THEN send.failures + 1 ELSE 0,
                              original |-> IF Resent(r, o) THEN send.original ELSE stages,
                              start_time_before |-> reqs[r].start_time]
    /\ UNCHANGED << broker, mc_pc, mc_snapshot, mc_i, mc_tried, cr_pc, max_retry,
                    retry_count, cr_trace, cr_open_at_call, disconnect >>
    /\ UNCHANGED << error_count, notified, return_code, sl_pc, sl_request,
                    sl_interrupted, sl_iteration, sl_scene, confirm_calls,
                    report_calls, failure, arg_max_error_count >>

\* a counter that goes up by two
counts_twice(c) == IF c + 2 < MaxErrors THEN c + 2 ELSE MaxErrors

\* self.error_count += 1.  Python's integer does not overflow; the model
\* stops counting at MaxErrors, above the one value the code compares the
\* counter with (max_error_count)
NextErrorCount(c) == IF c < MaxErrors THEN c + 1 ELSE c

\* lines 286, 350, 171 and 183: if self.error_count > self.max_error_count
Exceeded(count) == count > max_error_count

\* start_uploading_requests is called, lines 272-274
start_uploading_requests ==
    /\ Callable
    /\ op' = "start_uploading_requests"
    /\ op_state' = "running"
    /\ op_exc' = ""
    /\ return_code' = 0
    /\ sl_pc' = "get"
    /\ sl_request' = NoRequest
    /\ sl_interrupted' = FALSE
    /\ sl_iteration' = "none"
    /\ sl_scene' = NoScene
    /\ failure' = NoFailure
    /\ UNCHANGED << broker, mq_connection, mq_channel, mc_pc, mc_snapshot, mc_i,
                    mc_tried, cr_pc, max_retry, retry_count, cr_trace, cr_open_at_call,
                    disconnect >>
    /\ UNCHANGED << now, reqs, publish, send, error_count, notified, confirm_calls,
                    report_calls, arg_max_error_count >>

\* a test that takes every value for a request
never_empty(processing_request) == FALSE

\* line 297: if not processing_request
IsEmpty(processing_request) == processing_request = NoRequest

\* lines 279 and 296-298: get_request() returns a request, or nothing, and
\* with nothing the loop starts over
SlGetRequest ==
    /\ sl_pc = "get"
    /\ \E processing_request \in Requests \cup {NoRequest} :
         /\ sl_request' = processing_request
         /\ sl_pc' = IF IsEmpty(processing_request) THEN "get" ELSE "connect"
         /\ sl_iteration' = IF processing_request = NoRequest THEN "empty" ELSE "open"
    /\ UNCHANGED connVars
    /\ UNCHANGED << now, reqs, publish, send, error_count, notified, return_code,
                    sl_interrupted, sl_scene, confirm_calls, report_calls, failure,
                    arg_max_error_count >>

\* lines 280-294: get_request() raises WorkerAdapterRecoverableError
SlGetRecoverable ==
    /\ sl_pc = "get"
    /\ notified' = IF Exceeded(error_count)
                   THEN notified \cup {"Failed to get processing request!"}
                   ELSE notified
    /\ error_count' = NextErrorCount(error_count)
    /\ failure' = [kind |-> "counted", before |-> error_count,
                   asked |-> Exceeded(error_count), slept |-> TRUE]
    /\ sl_iteration' = "get failed"
    /\ UNCHANGED connVars
    /\ UNCHANGED << now, reqs, publish, send, return_code, sl_pc, sl_request,
                    sl_interrupted, sl_scene, confirm_calls, report_calls,
                    arg_max_error_count >>

\* get_request() raises any other exception: no inner handler takes it
SlGetFails ==
    /\ sl_pc = "get"
    /\ sl_pc' = "fatal"
    /\ sl_iteration' = "none"
    /\ UNCHANGED connVars
    /\ UNCHANGED << now, reqs, publish, send, error_count, notified, return_code,
                    sl_request, sl_interrupted, sl_scene, confirm_calls, report_calls,
                    failure, arg_max_error_count >>

\* what an iteration that holds a request meets when it goes to connect, and
\* the max_retry it passes (line 304)
Scene ==
    [connected |-> IsConnected(mq_connection, mq_channel),
     endpoint_up |->
        IF IsConnected(mq_connection, mq_channel)
        THEN broker[mq_channel.host] = "accept"
        ELSE \E i \in 1 .. Len(get_mq_servers) : broker[get_mq_servers[i].host] = "accept",
     routable |-> /\ sl_request # NoRequest
                  /\ reqs[sl_request].processing_stages # << >>
                  /\ reqs[sl_request].processing_stages[1] \in ExistingQueues,
     error_count |-> error_count,
     max_retry |-> max_error_count + 1]

\* lines 302-306: self.mq_connect_retry(confirm_delivery=True, ...).
\* mq_connect_retry (mq_client.py line 77) takes heartbeat, max_retry and
\* retry_interval, by keyword only: the call raises TypeError before the
\* method runs.  TypeError is not ConnectionError; the handler of lines
\* 389-403 takes it.
SlConnect ==
    /\ sl_pc = "connect"
    /\ sl_scene' = Scene
    /\ sl_pc' = "fatal"
    /\ UNCHANGED connVars
    /\ UNCHANGED << now, reqs, publish, send, error_count, notified, return_code,
                    sl_request, sl_interrupted, sl_iteration, confirm_calls,
                    report_calls, failure, arg_max_error_count >>

\* a handler that asks for a notification only above the threshold
notifies_above_threshold ==
    /\ sl_pc = "fatal"
    /\ notified' =
         IF Exceeded(error_count)
         THEN notified \cup {"Unrecoverable error has occured during request uploading!"}
         ELSE notified
    /\ error_count' = NextErrorCount(error_count)
    /\ failure' = [kind |-> "unclassified", before |-> error_count,
                   asked |-> Exceeded(error_count), slept |-> FALSE]
    /\ return_code' = 1
    /\ sl_pc' = "return"
    /\ sl_iteration' = IF sl_iteration = "open" THEN "over" ELSE sl_iteration
    /\ UNCHANGED connVars
    /\ UNCHANGED << now, reqs, publish, send, sl_request, sl_interrupted, sl_scene,
                    confirm_calls, report_calls, arg_max_error_count >>

\* lines 389-403: an exception no inner handler takes ends the loop
SlUnrecoverable ==
    /\ sl_pc = "fatal"
    /\ notified' = notified \cup {"Unrecoverable error has occured during request uploading!"}
    /\ error_count' = NextErrorCount(error_count)
    /\ failure' = [kind |-> "unclassified", before |-> error_count, asked |-> TRUE,
                   slept |-> FALSE]
    /\ return_code' = 1
    /\ sl_pc' = "return"
    /\ sl_iteration' = IF sl_iteration = "open" THEN "over" ELSE sl_iteration
    /\ UNCHANGED connVars
    /\ UNCHANGED << now, reqs, publish, send, sl_request, sl_interrupted, sl_scene,
                    confirm_calls, report_calls, arg_max_error_count >>

\* lines 385-388: KeyboardInterrupt while the try block of lines 276-384 runs
SlInterrupt ==
    /\ sl_pc \in {"get", "connect"}
    /\ sl_interrupted' = TRUE
    /\ sl_pc' = "return"
    /\ sl_iteration' = IF sl_iteration = "open" THEN "over" ELSE sl_iteration
    /\ UNCHANGED connVars
    /\ UNCHANGED << now, reqs, publish, send, error_count, notified, return_code,
                    sl_request, sl_scene, confirm_calls, report_calls, failure,
                    arg_max_error_count >>

\* how far the handler of lines 389-403 can be when KeyboardInterrupt comes:
\* before send_mail_notification is called (line 395), in it or after it, or
\* after the counter is increased (line 401)
HandlerProgress == {"caught", "notified", "counted"}

\* KeyboardInterrupt while the handler of lines 389-403 runs: no clause of
\* the try statement of line 276 takes an exception raised in one of its own
\* handlers, and the call ends with KeyboardInterrupt; its locals are gone
SlInterruptHandler ==
    /\ sl_pc = "fatal"
    /\ \E progress \in HandlerProgress :
         /\ notified' =
              IF progress = "caught" THEN notified
              ELSE notified \cup {"Unrecoverable error has occured during request uploading!"}
         /\ error_count' = IF progress = "counted" THEN NextErrorCount(error_count)
                           ELSE error_count
    /\ sl_interrupted' = TRUE
    /\ sl_pc' = "idle"
    /\ op_state' = "raised"
    /\ op_exc' = "KeyboardInterrupt"
    /\ sl_request' = NoRequest
    /\ sl_iteration' = "none"
    /\ sl_scene' = NoScene
    /\ UNCHANGED << broker, mq_connection, mq_channel, op, mc_pc, mc_snapshot, mc_i,
                    mc_tried, cr_pc, max_retry, retry_count, cr_trace, cr_open_at_call,
                    disconnect >>
    /\ failure' = NoFailure
    /\ UNCHANGED << now, reqs, publish, send, return_code, confirm_calls,
                    report_calls, arg_max_error_count >>

\* line 405: return return_code; the locals of the call are gone
SlReturn ==
    /\ sl_pc = "return"
    /\ sl_pc' = "idle"
    /\ op_state' = "returned"
    /\ UNCHANGED << broker, mq_connection, mq_channel, op, op_exc, mc_pc,
                    mc_snapshot, mc_i, mc_tried, cr_pc, max_retry, retry_count,
                    cr_trace, cr_open_at_call, disconnect >>
    /\ sl_request' = NoRequest
    /\ sl_iteration' = "none"
    /\ sl_scene' = NoScene
    /\ UNCHANGED << now, reqs, publish, send, error_count, notified, return_code,
                    sl_interrupted, confirm_calls, report_calls, failure,
                    arg_max_error_count >>

\* the adapter after WorkerAdapter(..., max_error_count = m), lines 74-78
SendInitAs(m) ==
    /\ now = 999999
    /\ reqs = InitialRequests
    /\ publish = NoPublish
    /\ send = NoSend
    /\ error_count = 0
    /\ notified = {}
    /\ return_code = 0
    /\ sl_pc = "idle"
    /\ sl_request = NoRequest
    /\ sl_interrupted = FALSE
    /\ sl_iteration = "none"
    /\ sl_scene = NoScene
    /\ confirm_calls = [p \in Requests |-> 0]
    /\ report_calls = [p \in Requests |-> 0]
    /\ failure = NoFailure
    /\ arg_max_error_count = m

\* the constructor called without max_error_count: the default of line 44
SendInit == SendInitAs(10)

(***************************************************************************)
(* The worker adapter: the callback that takes a delivery, and the loop     *)
(* that receives results (worker_adapter.py).                               *)
(***************************************************************************)

MaxDeliveries == 3

\* what on_message_receive can end with; all but the last two derive from
\* Exception
HandlerOutcomes == {"return", "WorkerAdapterRecoverableError", "WorkerAdapterError",
                    "KeyboardInterrupt"}

NoRlScene == [set |-> FALSE, connected |-> FALSE, endpoint_up |-> FALSE,
              pending |-> "none", error_count |-> 0]

VARIABLES
    on_message_receive, \* WorkerAdapter.on_message_receive is set
    deliveries,         \* history: every delivery the callback got; the index
                        \* is the delivery tag
    cb_pc,              \* the callback: "idle", "parse", "call" or "handler"
    rl_pc,              \* the receive loop: "idle", "connect", "fatal" or "return"
    rl_interrupted,     \* history: KeyboardInterrupt ended the receive loop
    rl_scene            \* history: what the receive loop met when it went to
                        \* connect

recvVars == << on_message_receive, deliveries, cb_pc, rl_pc, rl_interrupted, rl_scene >>

\* a handler clause that takes no exception
catches_nothing(exc) == FALSE

\* line 111: except Exception
Caught(exc) == exc \notin {"return", "KeyboardInterrupt"}

\* channel.basic_nack(delivery_tag = method.delivery_tag, requeue = True)
basic_nack(delivery) ==
    [delivery EXCEPT !.nacks = @ + 1, !.requeue = @ \cup {TRUE}]

\* channel.basic_ack(delivery_tag = method.delivery_tag)
basic_ack(delivery) == [delivery EXCEPT !.acks = @ + 1]

delivery_tag == Len(deliveries)

\* the broker's consumer calls _mq_receive_result_callback with a delivery
\* whose body parses, or does not
mq_receive_result_callback(parses) ==
    /\ Callable
    /\ Len(deliveries) < MaxDeliveries
    /\ op' = "_mq_receive_result_callback"
    /\ op_state' = "running"
    /\ op_exc' = ""
    /\ deliveries' = Append(deliveries,
                            [parses |-> parses, parsed |-> FALSE, handler |-> "not called",
                             acks |-> 0, nacks |-> 0, requeue |-> {}])
    /\ cb_pc' = "parse"
    /\ UNCHANGED << broker, mq_connection, mq_channel, mc_pc, mc_snapshot, mc_i,
                    mc_tried, cr_pc, max_retry, retry_count, cr_trace, cr_open_at_call,
                    disconnect >>
    /\ UNCHANGED sendVars
    /\ UNCHANGED << on_message_receive, rl_pc, rl_interrupted, rl_scene >>

\* lines 98-107: ProcessingRequest().FromString(body)
CbParse ==
    /\ cb_pc = "parse"
    /\ LET d == deliveries[delivery_tag]
       IN  IF d.parses
           THEN /\ deliveries' = [deliveries EXCEPT ![delivery_tag].parsed = TRUE]
                /\ cb_pc' = "call"
                /\ UNCHANGED << op_state, op_exc >>
           ELSE /\ deliveries' = [deliveries EXCEPT ![delivery_tag] = basic_nack(d)]
                /\ cb_pc' = "idle"
                /\ op_state' = "raised"
                /\ op_exc' = "DecodeError"
    /\ UNCHANGED << broker, mq_connection, mq_channel, op, mc_pc, mc_snapshot, mc_i,
                    mc_tried, cr_pc, max_retry, retry_count, cr_trace, cr_open_at_call,
                    disconnect >>
    /\ UNCHANGED sendVars
    /\ UNCHANGED << on_message_receive, rl_pc, rl_interrupted, rl_scene >>

\* line 110: self.on_message_receive(processing_request) is called; the
\* attribute exists once start_receiving_results has set it
CbCall ==
    /\ cb_pc = "call"
    /\ LET d == deliveries[delivery_tag]
       IN  IF on_message_receive
           THEN /\ deliveries' = [deliveries EXCEPT ![delivery_tag].handler = "running"]
                /\ cb_pc' = "handler"
                /\ UNCHANGED << op_state, op_exc >>
           ELSE /\ deliveries' =
                     [deliveries EXCEPT
                        ![delivery_tag] =
                           IF Caught("AttributeError")
                           THEN basic_nack([d EXCEPT !.handler = "AttributeError"])
                           ELSE [d EXCEPT !.handler = "AttributeError"]]
                /\ cb_pc' = "idle"
                /\ op_state' = "raised"
                /\ op_exc' = "AttributeError"
    /\ UNCHANGED << broker, mq_connection, mq_channel, op, mc_pc, mc_snapshot, mc_i,
                    mc_tried, cr_pc, max_retry, retry_count, cr_trace, cr_open_at_call,
                    disconnect >>
    /\ UNCHANGED sendVars
    /\ UNCHANGED << on_message_receive, rl_pc, rl_interrupted, rl_scene >>

\* lines 110-118: on_message_receive ends
CbHandlerEnds ==
    /\ cb_pc = "handler"
    /\ \E outcome \in HandlerOutcomes :
         LET d == [deliveries[delivery_tag] EXCEPT !.handler = outcome]
         IN  /\ deliveries' =
                  [deliveries EXCEPT
                     ![delivery_tag] = IF outcome = "return" THEN basic_ack(d)
                                       ELSE IF Caught(outcome) THEN basic_nack(d)
                                       ELSE d]
             /\ op_state' = IF outcome = "return" THEN "returned" ELSE "raised"
             /\ op_exc' = IF outcome = "return" THEN "" ELSE outcome
    /\ cb_pc' = "idle"
    /\ UNCHANGED << broker, mq_connection, mq_channel, op, mc_pc, mc_snapshot, mc_i,
                    mc_tried, cr_pc, max_retry, retry_count, cr_trace, cr_open_at_call,
                    disconnect >>
    /\ UNCHANGED sendVars
    /\ UNCHANGED << on_message_receive, rl_pc, rl_interrupted, rl_scene >>

\* start_receiving_results is called, lines 134-136
start_receiving_results ==
    /\ Callable
    /\ op' = "start_receiving_results"
    /\ op_state' = "running"
    /\ op_exc' = ""
    /\ return_code' = 0
    /\ on_message_receive' = TRUE
    /\ rl_pc' = "connect"
    /\ rl_interrupted' = FALSE
    /\ rl_scene' = NoRlScene
    /\ failure' = NoFailure
    /\ UNCHANGED << broker, mq_connection, mq_channel, mc_pc, mc_snapshot, mc_i,
                    mc_tried, cr_pc, max_retry, retry_count, cr_trace, cr_open_at_call,
                    disconnect >>
    /\ UNCHANGED << now, reqs, publish, send, error_count, notified, sl_pc,
                    sl_request, sl_interrupted, sl_iteration, sl_scene, confirm_calls,
                    report_calls, arg_max_error_count >>
    /\ UNCHANGED << deliveries, cb_pc >>

\* the clause of start_receiving_results that takes an exception raised at
\* a place of its loop: line 145 for the connect call, lines 165 and 178
\* for start_consuming, lines 192 and 196 for the whole try block
RlHandler(place, exc) ==
    IF place = "connect" /\ exc = "ConnectionError" THEN "connection"
    ELSE IF place = "consume" /\ exc = "AMQPError" THEN "transport"
    ELSE IF place = "consume" /\ exc = "WorkerAdapterRecoverableError" THEN "recoverable"
    ELSE IF exc = "KeyboardInterrupt" THEN "interrupt"
    ELSE "fatal"

\* what the result queue holds for the consumer: nothing, a message whose
\* body does not parse, one for which on_message_receive raises
\* WorkerAdapterRecoverableError, or one it handles
Pending == {"none", "undecodable", "recoverable", "good"}

\* what the receive loop meets when it goes to connect
RlScene(pending) ==
    [set |-> TRUE,
     connected |-> IsConnected(mq_connection, mq_channel),
     endpoint_up |->
        IF IsConnected(mq_connection, mq_channel)
        THEN broker[mq_channel.host] = "accept"
        ELSE \E i \in 1 .. Len(get_mq_servers) : broker[get_mq_servers[i].host] = "accept",
     pending |-> pending,
     error_count |-> error_count]

\* lines 140-144: self.mq_connect_retry(confirm_delivery=True, ...) raises
\* TypeError, as in the upload loop; the handler of line 196 takes it
RlConnect ==
    /\ rl_pc = "connect"
    /\ rl_pc' = RlHandler("connect", "TypeError")
    /\ \E pending \in Pending : rl_scene' = RlScene(pending)
    /\ UNCHANGED connVars
    /\ UNCHANGED sendVars
    /\ UNCHANGED << on_message_receive, deliveries, cb_pc, rl_interrupted >>

\* lines 196-210: an exception no inner handler takes ends the loop
RlUnrecoverable ==
    /\ rl_pc = "fatal"
    /\ notified' = notified \cup {"Unrecoverable error has occured during result receiving!"}
    /\ error_count' = NextErrorCount(error_count)
    /\ failure' = [kind |-> "unclassified", before |-> error_count, asked |-> TRUE,
                   slept |-> FALSE]
    /\ return_code' = 1
    /\ rl_pc' = "return"
    /\ UNCHANGED connVars
    /\ UNCHANGED << now, reqs, publish, send, sl_pc, sl_request, sl_interrupted,
                    sl_iteration, sl_scene, confirm_calls, report_calls,
                    arg_max_error_count >>
    /\ UNCHANGED << on_message_receive, deliveries, cb_pc, rl_interrupted, rl_scene >>

\* lines 192-195: KeyboardInterrupt while the try block of lines 138-190 runs
RlInterrupt ==
    /\ rl_pc = "connect"
    /\ rl_interrupted' = TRUE
    /\ rl_pc' = "return"
    /\ UNCHANGED connVars
    /\ UNCHANGED sendVars
    /\ UNCHANGED << on_message_receive, deliveries, cb_pc, rl_scene >>

\* KeyboardInterrupt while the handler of lines 196-210 runs: the call ends
\* with KeyboardInterrupt
RlInterruptHandler ==
    /\ rl_pc = "fatal"
    /\ \E progress \in HandlerProgress :
         /\ notified' =
              IF progress = "caught" THEN notified
              ELSE notified \cup {"Unrecoverable error has occured during result receiving!"}
         /\ error_count' = IF progress = "counted" THEN NextErrorCount(error_count)
                           ELSE error_count
    /\ rl_interrupted' = TRUE
    /\ rl_pc' = "idle"
    /\ op_state' = "raised"
    /\ op_exc' = "KeyboardInterrupt"
    /\ UNCHANGED << broker, mq_connection, mq_channel, op, mc_pc, mc_snapshot, mc_i,
                    mc_tried, cr_pc, max_retry, retry_count, cr_trace, cr_open_at_call,
                    disconnect >>
    /\ failure' = NoFailure
    /\ UNCHANGED << now, reqs, publish, send, return_code, sl_pc, sl_request,
                    sl_interrupted, sl_iteration, sl_scene, confirm_calls, report_calls,
                    arg_max_error_count >>
    /\ rl_scene' = NoRlScene
    /\ UNCHANGED << on_message_receive, deliveries, cb_pc >>

\* line 212: return return_code
RlReturn ==
    /\ rl_pc = "return"
    /\ rl_pc' = "idle"
    /\ op_state' = "returned"
    /\ UNCHANGED << broker, mq_connection, mq_channel, op, op_exc, mc_pc,
                    mc_snapshot, mc_i, mc_tried, cr_pc, max_retry, retry_count,
                    cr_trace, cr_open_at_call, disconnect >>
    /\ rl_scene' = NoRlScene
    /\ UNCHANGED sendVars
    /\ UNCHANGED << on_message_receive, deliveries, cb_pc, rl_interrupted >>

RecvInit ==
    /\ on_message_receive = FALSE
    /\ deliveries = << >>
    /\ cb_pc = "idle"
    /\ rl_pc = "idle"
    /\ rl_interrupted = FALSE
    /\ rl_scene = NoRlScene


(***************************************************************************)
(* The mail client (mail_client.py): send_mail_notification and its        *)
(* interval.  Time is in ticks of the clock; the client is made at tick 0. *)
(***************************************************************************)

\* how far the clock goes
MaxClock == 4

\* how many calls of send_mail the history holds
MaxMails == 3

\* lines 39-44: datetime(1970, 1, 1), long before the client is made
EPOCH == 0 - 10

\* lines 32-35: the attributes send_mail_notification needs
MailFields == {"user", "password", "receivers", "host"}

\* the clients a caller makes: all four given, or one of them left out
MailConfigs == {MailFields} \cup {MailFields \ {f} : f \in MailFields}

\* values a caller passes for mail_interval, line 18
MailIntervals == {0, 2}

NoMailCall == [at |-> 0, attempted |-> FALSE, last_before |-> EPOCH, made |-> FALSE]

VARIABLES
    mail_clock,      \* environment: datetime.now
    mail_given,      \* which of user, password, receivers, host the client has
    mail_interval,   \* MailClient.mail_interval
    last_mail_time,  \* MailClient.last_mail_time
    mail_log,        \* history: every call of send_mail, with its time and
                     \* whether the mail went out
    mail_call        \* history: the last call of send_mail_notification

mailVars == << mail_clock, mail_given, mail_interval, last_mail_time, mail_log,
               mail_call >>

\* a client that lets every call through
never_too_soon(timestamp, last, interval) == FALSE

\* line 106: timestamp - self.last_mail_time < self.mail_interval
TooSoon(timestamp, last, interval) == timestamp - last < interval

\* lines 96-97: not self.user or not self.password or not self.receivers
\* or not self.host
Incomplete(given) == \E f \in MailFields : f \notin given

\* send_mail_notification, lines 95-122; send_mail goes through or raises,
\* and what it raises is logged
send_mail_notification ==
    /\ Len(mail_log) < MaxMails
    /\ \E smtp \in {"ok", "fails"} :
         LET timestamp == mail_clock
             attempts == /\ ~Incomplete(mail_given)
                         /\ ~TooSoon(timestamp, last_mail_time, mail_interval)
         IN  /\ last_mail_time' = IF attempts THEN timestamp ELSE last_mail_time
             /\ mail_log' = IF attempts
                            THEN Append(mail_log, [at |-> timestamp, sent |-> smtp = "ok"])
                            ELSE mail_log
             /\ mail_call' = [at |-> timestamp, attempted |-> attempts,
                              last_before |-> last_mail_time, made |-> TRUE]
    /\ UNCHANGED << mail_clock, mail_given, mail_interval >>

\* time passes
MailTick ==
    /\ mail_clock < MaxClock
    /\ mail_clock' = mail_clock + 1
    /\ UNCHANGED << mail_given, mail_interval, last_mail_time, mail_log, mail_call >>

\* MailClient(user, password, receivers, host, mail_interval), lines 32-44
MailInitAs(given, interval) ==
    /\ mail_clock = 0
    /\ mail_given = given
    /\ mail_interval = interval
    /\ last_mail_time = EPOCH
    /\ mail_log = << >>
    /\ mail_call = NoMailCall

\* MailClient(): the defaults of lines 14-18
MailInit == MailInitAs({}, 0)


vars == << dirVars, connVars, sendVars, recvVars, mailVars >>

Init == DirInit /\ ConnInit /\ SendInit /\ RecvInit /\ MailInit

(***************************************************************************)
(* SpecDirectory: the directory, its watch thread and one application      *)
(* thread that takes snapshots and changes the lists it was given.         *)
(***************************************************************************)
DirectoryNext ==
    \/ \E children \in Children :
         zk_callback_update_mq_servers(children) /\ UNCHANGED << connVars, sendVars, recvVars, mailVars >>
    \/ SetAssign /\ UNCHANGED << connVars, sendVars, recvVars, mailVars >>
    \/ SetRelease /\ UNCHANGED << connVars, sendVars, recvVars, mailVars >>
    \/ \E t \in {"r1"} : GetAcquire(t) /\ UNCHANGED << connVars, sendVars, recvVars, mailVars >>
    \/ \E t \in {"r1"} : GetCopy(t) /\ UNCHANGED << connVars, sendVars, recvVars, mailVars >>
    \/ \E t \in {"r1"} : GetRelease(t) /\ UNCHANGED << connVars, sendVars, recvVars, mailVars >>
    \/ \E t \in {"r1"} : SnapshotAppend(t) /\ UNCHANGED << connVars, sendVars, recvVars, mailVars >>
    \/ \E t \in {"r1"} : SnapshotRemove(t) /\ UNCHANGED << connVars, sendVars, recvVars, mailVars >>
    \/ \E t \in {"r1"} : SnapshotChange(t) /\ UNCHANGED << connVars, sendVars, recvVars, mailVars >>

SpecDirectory == Init /\ [][DirectoryNext]_vars

(***************************************************************************)
(* SpecShared: the watch thread updates the directory while two            *)
(* application threads take snapshots of it.                               *)
(***************************************************************************)
SharedNext ==
    \/ \E children \in Children :
         zk_callback_update_mq_servers(children) /\ UNCHANGED << connVars, sendVars, recvVars, mailVars >>
    \/ SetAssign /\ UNCHANGED << connVars, sendVars, recvVars, mailVars >>
    \/ SetRelease /\ UNCHANGED << connVars, sendVars, recvVars, mailVars >>
    \/ \E t \in Readers : GetAcquire(t) /\ UNCHANGED << connVars, sendVars, recvVars, mailVars >>
    \/ \E t \in Readers : GetCopy(t) /\ UNCHANGED << connVars, sendVars, recvVars, mailVars >>
    \/ \E t \in Readers : GetRelease(t) /\ UNCHANGED << connVars, sendVars, recvVars, mailVars >>

SpecShared == Init /\ [][SharedNext]_vars

(***************************************************************************)
(* SpecConnect: one client whose owner calls mq_connect and mq_disconnect  *)
(* while the endpoints come and go and the watch thread replaces the       *)
(* directory's list.                                                       *)
(***************************************************************************)
ConnectNext ==
    \/ \E children \in Children :
         zk_callback_update_mq_servers(children) /\ UNCHANGED << connVars, sendVars, recvVars, mailVars >>
    \/ SetAssign /\ UNCHANGED << connVars, sendVars, recvVars, mailVars >>
    \/ SetRelease /\ UNCHANGED << connVars, sendVars, recvVars, mailVars >>
    \/ BrokerChange /\ UNCHANGED << dirVars, sendVars, recvVars, mailVars >>
    \/ mq_connect /\ UNCHANGED << dirVars, sendVars, recvVars, mailVars >>
    \/ McAttempt /\ UNCHANGED << dirVars, sendVars, recvVars, mailVars >>
    \/ McReturn /\ UNCHANGED << dirVars, sendVars, recvVars, mailVars >>
    \/ mq_disconnect /\ UNCHANGED << dirVars, sendVars, recvVars, mailVars >>

SpecConnect == Init /\ [][ConnectNext]_vars

(***************************************************************************)
(* SpecRetry: one client whose owner calls mq_connect_retry and            *)
(* mq_disconnect while the endpoints come and go.  The directory holds     *)
(* what the watch reported first.                                          *)
(***************************************************************************)
InitReportedAs(children) ==
    /\ DirInitReported(children)
    /\ mq_servers_lock = "free"
    /\ zk_pc = [t \in Threads |-> "idle"]
    /\ w_servers = {}
    /\ rd_local = [t \in Readers |-> {}]
    /\ held = [t \in Readers |-> {}]
    /\ snap_log = {}
    /\ edited = "no"
    /\ ConnInit
    /\ SendInit
    /\ RecvInit
    /\ MailInit

InitReported == \E children \in Children : InitReportedAs(children)

RetryNext ==
    \/ BrokerChange /\ UNCHANGED << dirVars, sendVars, recvVars, mailVars >>
    \/ \E n \in 0 .. MaxRetry : mq_connect_retry(n) /\ UNCHANGED << dirVars, sendVars, recvVars, mailVars >>
    \/ RetryLoop /\ UNCHANGED << dirVars, sendVars, recvVars, mailVars >>
    \/ McAttempt /\ UNCHANGED << dirVars, sendVars, recvVars, mailVars >>
    \/ McReturn /\ UNCHANGED << dirVars, sendVars, recvVars, mailVars >>
    \/ RetryConnected /\ UNCHANGED << dirVars, sendVars, recvVars, mailVars >>
    \/ RetryAfter /\ UNCHANGED << dirVars, sendVars, recvVars, mailVars >>
    \/ RetryFinal /\ UNCHANGED << dirVars, sendVars, recvVars, mailVars >>
    \/ mq_disconnect /\ UNCHANGED << dirVars, sendVars, recvVars, mailVars >>

SpecRetry == InitReported /\ [][RetryNext]_vars

\* The thread that runs mq_connect_retry goes on: a sleep ends, and an
\* attempt to connect ends (pika gives up on a socket after its timeouts).
RetryStep ==
    \/ RetryLoop
    \/ McAttempt
    \/ McReturn
    \/ RetryConnected
    \/ RetryAfter
    \/ RetryFinal

SpecRetryFair ==
    /\ InitReported
    /\ [][RetryNext]_vars
    /\ WF_vars(RetryStep /\ UNCHANGED << dirVars, sendVars, recvVars, mailVars >>)

(***************************************************************************)
(* SpecDiscovery: the adapter starts with an empty directory; the watch    *)
(* thread replaces the list while the owner calls mq_connect_retry and     *)
(* the endpoints come and go.  The watch thread ends an update it began    *)
(* (_set_mq_servers does not block between acquire and release), and the   *)
(* owner's thread goes on: it gets the lock, which is free again and       *)
(* again, its sleeps end and its attempts end.                             *)
(***************************************************************************)
RetryLimits == {MaxRetry - 1}

DiscoveryNext ==
    \/ \E children \in Children :
         zk_callback_update_mq_servers(children) /\ UNCHANGED << connVars, sendVars, recvVars, mailVars >>
    \/ SetAssign /\ UNCHANGED << connVars, sendVars, recvVars, mailVars >>
    \/ SetRelease /\ UNCHANGED << connVars, sendVars, recvVars, mailVars >>
    \/ BrokerChange /\ UNCHANGED << dirVars, sendVars, recvVars, mailVars >>
    \/ \E n \in RetryLimits : mq_connect_retry(n) /\ UNCHANGED << dirVars, sendVars, recvVars, mailVars >>
    \/ RetryLoop /\ UNCHANGED << dirVars, sendVars, recvVars, mailVars >>
    \/ McAttempt /\ UNCHANGED << dirVars, sendVars, recvVars, mailVars >>
    \/ McReturn /\ UNCHANGED << dirVars, sendVars, recvVars, mailVars >>
    \/ RetryConnected /\ UNCHANGED << dirVars, sendVars, recvVars, mailVars >>
    \/ RetryAfter /\ UNCHANGED << dirVars, sendVars, recvVars, mailVars >>
    \/ RetryFinal /\ UNCHANGED << dirVars, sendVars, recvVars, mailVars >>

UpdateStep ==
    \/ SetAssign
    \/ SetRelease

SpecDiscovery ==
    /\ Init
    /\ [][DiscoveryNext]_vars
    /\ WF_vars(UpdateStep /\ UNCHANGED << connVars, sendVars, recvVars, mailVars >>)
    /\ SF_vars(RetryStep /\ UNCHANGED << dirVars, sendVars, recvVars, mailVars >>)

(***************************************************************************)
(* SpecSend: the owner of the adapter connects and sends requests with     *)
(* mq_send_request, while the endpoint the directory names comes and goes. *)
(***************************************************************************)
InitOneServer == InitReportedAs(<< << "A", 0 >> >>)

SendNext ==
    \/ EndpointChange("A") /\ UNCHANGED << dirVars, sendVars, recvVars, mailVars >>
    \/ mq_connect /\ UNCHANGED << dirVars, sendVars, recvVars, mailVars >>
    \/ McAttempt /\ UNCHANGED << dirVars, sendVars, recvVars, mailVars >>
    \/ McReturn /\ UNCHANGED << dirVars, sendVars, recvVars, mailVars >>
    \/ \E r \in Requests, o \in OutputQueues :
         mq_send_request(r, o) /\ UNCHANGED << dirVars, recvVars, mailVars >>

SpecSend == InitOneServer /\ [][SendNext]_vars

(***************************************************************************)
(* SpecUpload: the owner of the adapter connects and runs the upload loop, *)
(* while the endpoint the directory names comes and goes.                  *)
(***************************************************************************)
UploadNext ==
    \/ EndpointChange("A") /\ UNCHANGED << dirVars, sendVars, recvVars, mailVars >>
    \/ mq_connect /\ UNCHANGED << dirVars, sendVars, recvVars, mailVars >>
    \/ McAttempt /\ UNCHANGED << dirVars, sendVars, recvVars, mailVars >>
    \/ McReturn /\ UNCHANGED << dirVars, sendVars, recvVars, mailVars >>
    \/ start_uploading_requests /\ UNCHANGED << dirVars, recvVars, mailVars >>
    \/ SlGetRequest /\ UNCHANGED << dirVars, recvVars, mailVars >>
    \/ SlGetRecoverable /\ UNCHANGED << dirVars, recvVars, mailVars >>
    \/ SlGetFails /\ UNCHANGED << dirVars, recvVars, mailVars >>
    \/ SlConnect /\ UNCHANGED << dirVars, recvVars, mailVars >>
    \/ SlUnrecoverable /\ UNCHANGED << dirVars, recvVars, mailVars >>
    \/ SlInterrupt /\ UNCHANGED << dirVars, recvVars, mailVars >>
    \/ SlInterruptHandler /\ UNCHANGED << dirVars, recvVars, mailVars >>
    \/ SlReturn /\ UNCHANGED << dirVars, recvVars, mailVars >>

SpecUpload == InitOneServer /\ [][UploadNext]_vars

(***************************************************************************)
(* SpecReceive: the owner of the adapter runs the receive loop, and a      *)
(* consumer hands deliveries to the callback.                              *)
(***************************************************************************)
ReceiveNext ==
    \/ start_receiving_results /\ UNCHANGED << dirVars, mailVars >>
    \/ RlConnect /\ UNCHANGED << dirVars, mailVars >>
    \/ RlUnrecoverable /\ UNCHANGED << dirVars, mailVars >>
    \/ RlInterrupt /\ UNCHANGED << dirVars, mailVars >>
    \/ RlInterruptHandler /\ UNCHANGED << dirVars, mailVars >>
    \/ RlReturn /\ UNCHANGED << dirVars, mailVars >>
    \/ \E parses \in BOOLEAN : mq_receive_result_callback(parses) /\ UNCHANGED << dirVars, mailVars >>
    \/ CbParse /\ UNCHANGED << dirVars, mailVars >>
    \/ CbCall /\ UNCHANGED << dirVars, mailVars >>
    \/ CbHandlerEnds /\ UNCHANGED << dirVars, mailVars >>

SpecReceive == Init /\ [][ReceiveNext]_vars

(***************************************************************************)
(* SpecDisconnect: the owner of one client connects and disconnects, in    *)
(* any order, while the endpoint the directory names comes and goes.       *)
(***************************************************************************)
DisconnectNext ==
    \/ EndpointChange("A") /\ UNCHANGED << dirVars, sendVars, recvVars, mailVars >>
    \/ mq_connect /\ UNCHANGED << dirVars, sendVars, recvVars, mailVars >>
    \/ McAttempt /\ UNCHANGED << dirVars, sendVars, recvVars, mailVars >>
    \/ McReturn /\ UNCHANGED << dirVars, sendVars, recvVars, mailVars >>
    \/ mq_disconnect /\ UNCHANGED << dirVars, sendVars, recvVars, mailVars >>

SpecDisconnect == InitOneServer /\ [][DisconnectNext]_vars

(***************************************************************************)
(* SpecConsume: the owner of the adapter connects and runs the receive     *)
(* loop, while the endpoint the directory names comes and goes and the     *)
(* result queue holds one message or none.                                 *)
(***************************************************************************)
ConsumeNext ==
    \/ EndpointChange("A") /\ UNCHANGED << dirVars, sendVars, recvVars, mailVars >>
    \/ mq_connect /\ UNCHANGED << dirVars, sendVars, recvVars, mailVars >>
    \/ McAttempt /\ UNCHANGED << dirVars, sendVars, recvVars, mailVars >>
    \/ McReturn /\ UNCHANGED << dirVars, sendVars, recvVars, mailVars >>
    \/ start_receiving_results /\ UNCHANGED << dirVars, mailVars >>
    \/ RlConnect /\ UNCHANGED << dirVars, mailVars >>
    \/ RlUnrecoverable /\ UNCHANGED << dirVars, mailVars >>
    \/ RlInterrupt /\ UNCHANGED << dirVars, mailVars >>
    \/ RlInterruptHandler /\ UNCHANGED << dirVars, mailVars >>
    \/ RlReturn /\ UNCHANGED << dirVars, mailVars >>

SpecConsume == InitOneServer /\ [][ConsumeNext]_vars

(***************************************************************************)
(* SpecLoops: the owner of the adapter runs the upload loop and the receive *)
(* loop, one after the other, in any order and any number of times.         *)
(***************************************************************************)
LoopsNext ==
    \/ start_uploading_requests /\ UNCHANGED << dirVars, recvVars, mailVars >>
    \/ SlGetRequest /\ UNCHANGED << dirVars, recvVars, mailVars >>
    \/ SlGetRecoverable /\ UNCHANGED << dirVars, recvVars, mailVars >>
    \/ SlGetFails /\ UNCHANGED << dirVars, recvVars, mailVars >>
    \/ SlConnect /\ UNCHANGED << dirVars, recvVars, mailVars >>
    \/ SlUnrecoverable /\ UNCHANGED << dirVars, recvVars, mailVars >>
    \/ SlInterrupt /\ UNCHANGED << dirVars, recvVars, mailVars >>
    \/ SlInterruptHandler /\ UNCHANGED << dirVars, recvVars, mailVars >>
    \/ SlReturn /\ UNCHANGED << dirVars, recvVars, mailVars >>
    \/ start_receiving_results /\ UNCHANGED << dirVars, mailVars >>
    \/ RlConnect /\ UNCHANGED << dirVars, mailVars >>
    \/ RlUnrecoverable /\ UNCHANGED << dirVars, mailVars >>
    \/ RlInterrupt /\ UNCHANGED << dirVars, mailVars >>
    \/ RlInterruptHandler /\ UNCHANGED << dirVars, mailVars >>
    \/ RlReturn /\ UNCHANGED << dirVars, mailVars >>

SpecLoops == Init /\ [][LoopsNext]_vars

(***************************************************************************)
(* SpecConfigured: adapters built with different values of max_error_count *)
(* run the upload loop.                                                    *)
(***************************************************************************)
InitConfigured ==
    \E m \in ErrorLimits : DirInit /\ ConnInit /\ SendInitAs(m) /\ RecvInit /\ MailInit

ConfiguredNext ==
    \/ start_uploading_requests /\ UNCHANGED << dirVars, recvVars, mailVars >>
    \/ SlGetRequest /\ UNCHANGED << dirVars, recvVars, mailVars >>
    \/ SlGetRecoverable /\ UNCHANGED << dirVars, recvVars, mailVars >>
    \/ SlGetFails /\ UNCHANGED << dirVars, recvVars, mailVars >>
    \/ SlConnect /\ UNCHANGED << dirVars, recvVars, mailVars >>
    \/ SlUnrecoverable /\ UNCHANGED << dirVars, recvVars, mailVars >>
    \/ SlInterrupt /\ UNCHANGED << dirVars, recvVars, mailVars >>
    \/ SlInterruptHandler /\ UNCHANGED << dirVars, recvVars, mailVars >>
    \/ SlReturn /\ UNCHANGED << dirVars, recvVars, mailVars >>

SpecConfigured == InitConfigured /\ [][ConfiguredNext]_vars

(***************************************************************************)
(* SpecMail: mail clients made with all arguments or with one left out,    *)
(* and with different intervals, are asked to notify as time passes.       *)
(***************************************************************************)
InitMail ==
    /\ DirInit /\ ConnInit /\ SendInit /\ RecvInit
    /\ \E given \in MailConfigs, interval \in MailIntervals : MailInitAs(given, interval)

MailNext ==
    \/ send_mail_notification /\ UNCHANGED << dirVars, connVars, sendVars, recvVars >>
    \/ MailTick /\ UNCHANGED << dirVars, connVars, sendVars, recvVars >>

SpecMail == InitMail /\ [][MailNext]_vars

(***************************************************************************)
(* The properties.                                                         *)
(***************************************************************************)

\* mq_connect has returned to the owner who called it
ConnectReturned == op = "mq_connect" /\ op_state = "returned"

\* the attempts of the mq_connect that returned last went down its list
TriedInListOrder ==
    /\ Len(mc_tried) <= Len(mc_snapshot)
    /\ \A k \in 1 .. Len(mc_tried) :
         /\ mc_tried[k].host = mc_snapshot[k].host
         /\ mc_tried[k].port = (IF mc_snapshot[k].port # 0 THEN mc_snapshot[k].port ELSE DEFAULT_PORT)

\* C7: one mq_connect call tries the endpoints in the order of its list,
\* stops at the first one where connection and channel open, ends holding
\* the connection and the channel of that endpoint, and tries none after
\* it; when none lets it open both it has tried them all.
C7_ConnectInListOrder ==
    ConnectReturned =>
        /\ TriedInListOrder
        /\ \A k \in 1 .. Len(mc_tried) - 1 : mc_tried[k].outcome # "accept"
        /\ IF mc_tried # << >> /\ mc_tried[Len(mc_tried)].outcome = "accept"
           THEN LET last == mc_tried[Len(mc_tried)]
                IN  /\ mq_connection.set /\ mq_connection.open
                    /\ mq_connection.host = last.host /\ mq_connection.port = last.port
                    /\ mq_channel.set /\ mq_channel.open /\ mq_channel.on_current
                    /\ mq_channel.host = last.host /\ mq_channel.port = last.port
           ELSE Len(mc_tried) = Len(mc_snapshot)

\* the first endpoint of a list of two took the client although the second
\* one would have, too
C7_Witness ==
    /\ ConnectReturned
    /\ Len(mc_snapshot) = 2
    /\ Len(mc_tried) = 1
    /\ mc_tried[1].outcome = "accept"
    /\ broker[mc_snapshot[2].host] = "accept"

\* N connects with a sleep between each two of them
RECURSIVE ConnectsAndSleeps(_)
ConnectsAndSleeps(n) ==
    IF n <= 1 THEN << "connect" >>
    ELSE ConnectsAndSleeps(n - 1) \o << "sleep", "connect" >>

RetryEnded == op = "mq_connect_retry" /\ op_state \in {"returned", "raised"}

\* C6: with max_retry = N > 0, a mq_connect_retry none of whose attempts
\* left connection and channel open has made exactly N connect attempts,
\* has slept exactly once between each two of them, neither before the
\* first nor after the last, and has raised ConnectionError.
C6_BoundedRetry ==
    (RetryEnded /\ max_retry > 0
        /\ ~(mq_connection.set /\ mq_connection.open /\ mq_channel.set /\ mq_channel.open))
    => /\ op_state = "raised"
       /\ op_exc = "ConnectionError"
       /\ cr_trace = ConnectsAndSleeps(max_retry)

C6_Witness ==
    /\ RetryEnded
    /\ max_retry = MaxRetry
    /\ op_state = "raised"
    /\ Len(cr_trace) = 2 * MaxRetry - 1

NumberOf(trace, event) == Cardinality({k \in 1 .. Len(trace) : trace[k] = event})

\* C8: mq_connect_retry returns only with the connection and the channel
\* both open, and when both were open at the call it has neither tried to
\* connect nor slept.
C8_ReturnsConnected ==
    /\ (op = "mq_connect_retry" /\ op_state = "returned")
         => (mq_connection.set /\ mq_connection.open /\ mq_channel.set /\ mq_channel.open)
    /\ (op = "mq_connect_retry" /\ cr_open_at_call)
         => (cr_trace = << >> /\ op_state \in {"running", "returned"})

\* the last attempt max_retry allows is the one that connects
C8_Witness ==
    /\ op = "mq_connect_retry"
    /\ op_state = "returned"
    /\ max_retry = MaxRetry
    /\ NumberOf(cr_trace, "connect") = MaxRetry

\* the instant a Timestamp names, in microseconds
ToMicroseconds(ts) == ts.seconds * 1000000 + ts.nanos \div 1000

\* mq_send_request was called with a request whose stage list was not empty
SendCalled == op = "mq_send_request" /\ send.stages_before # << >>

\* C1: a call of mq_send_request with a request whose stages are s0, s1, ...
\* and an output queue o leaves the request with the stages s0, s1, ..., o
\* and with a start_time not before the start of the call; the message it
\* hands to the channel goes to the queue s0 and carries the request as it
\* then is; and the timestamp it returns is the instant written to
\* start_time.
C1_SendRoutes ==
    SendCalled =>
        LET r == reqs[send.request]
        IN  /\ r.processing_stages = send.stages_before \o << send.output_queue_name >>
            /\ ToMicroseconds(r.start_time) >= send.started
            /\ r.start_time.nanos % 1000 = 0
            /\ op_exc # "AttributeError"
                 => /\ publish.routing_key = send.stages_before[1]
                    /\ publish.processing_stages = r.processing_stages
                    /\ publish.start_time = r.start_time
            /\ op_state = "returned"
                 => /\ publish.sent
                    /\ send.returned = {ToMicroseconds(r.start_time)}
            /\ op_state = "raised" => send.returned = {}

\* a request of two different stages was sent, the clock having moved on
\* between the call and the reading of the time
C1_Witness ==
    /\ SendCalled
    /\ op_state = "returned"
    /\ Len(send.stages_before) = 2
    /\ send.stages_before[1] # send.stages_before[2]
    /\ send.output_queue_name # send.stages_before[2]
    /\ send.returned # {send.started}

\* an iteration of the upload loop that held a request has ended, and no
\* KeyboardInterrupt ended it
IterationOver ==
    /\ op = "start_uploading_requests"
    /\ sl_iteration = "over"
    /\ ~sl_interrupted

\* C2: an iteration of the upload loop that got a request whose first stage
\* is a queue, with an endpoint that takes the client, ends with
\* confirm_send called once with that request, and report_error not called.
C2_ConfirmsWhatItSent ==
    (IterationOver /\ sl_scene.endpoint_up /\ sl_scene.routable)
    => /\ confirm_calls[sl_request] = 1
       /\ report_calls[sl_request] = 0

\* C3: an iteration of the upload loop that got a request whose first stage
\* names no queue, with an endpoint that takes the client, ends with
\* report_error called once with that request and confirm_send not called,
\* and the loop goes on with the next get_request.
C3_ReportsUnroutable ==
    (IterationOver /\ sl_scene.endpoint_up /\ ~sl_scene.routable)
    => /\ report_calls[sl_request] = 1
       /\ confirm_calls[sl_request] = 0
       /\ sl_pc = "get"
       /\ return_code = 0

\* C4: an iteration of the upload loop that got a request while the client
\* held an open connection whose endpoint is gone (the publish fails with a
\* transport error) ends with the error counter one higher, neither
\* confirm_send nor report_error called, and the loop going on, its return
\* status 0.
C4_TransportErrorRecovers ==
    (IterationOver /\ sl_scene.connected /\ ~sl_scene.endpoint_up)
    => /\ error_count = NextErrorCount(sl_scene.error_count)
       /\ confirm_calls[sl_request] = 0
       /\ report_calls[sl_request] = 0
       /\ sl_pc = "get"
       /\ return_code = 0

\* the callback has finished with delivery k
Finished(k) == k < Len(deliveries) \/ cb_pc = "idle"

\* delivery k failed: its body did not parse, or on_message_receive raised
\* an error
Failed(k) ==
    \/ ~deliveries[k].parses
    \/ deliveries[k].handler \in {"WorkerAdapterRecoverableError", "WorkerAdapterError",
                                  "AttributeError"}

\* C5: a delivery is acked if and only if its body parsed and
\* on_message_receive returned; a delivery that failed is nacked exactly
\* once, with requeue; no delivery is both acked and nacked, or acked or
\* nacked twice; and none is acked while on_message_receive has not
\* returned.
C5_AckOrNack ==
    \A k \in 1 .. Len(deliveries) :
        LET d == deliveries[k]
        IN  /\ d.acks + d.nacks <= 1
            /\ d.acks = 1 => (d.parses /\ d.parsed /\ d.handler = "return")
            /\ (Finished(k) /\ d.parsed /\ d.handler = "return") => d.acks = 1
            /\ (Finished(k) /\ Failed(k)) => (d.nacks = 1 /\ d.requeue = {TRUE})
            /\ d.nacks = 1 => Failed(k)

\* one delivery was acked, one nacked for its body, one nacked for an error
\* of on_message_receive
C5_Witness ==
    /\ cb_pc = "idle"
    /\ \E a, b, c \in 1 .. Len(deliveries) :
         /\ deliveries[a].acks = 1
         /\ ~deliveries[b].parses /\ deliveries[b].nacks = 1
         /\ deliveries[c].handler = "WorkerAdapterRecoverableError" /\ deliveries[c].nacks = 1

RetryForEver == op = "mq_connect_retry" /\ max_retry = 0

\* the directory names host h, and the endpoint there takes clients
Serves(h) ==
    /\ \E i \in 1 .. Len(get_mq_servers) : get_mq_servers[i].host = h
    /\ broker[h] = "accept"

\* C9: with max_retry = 0 mq_connect_retry never raises ConnectionError and
\* leaves its loop only with connection and channel open; and if from some
\* time on an endpoint of the directory takes clients and goes on doing so,
\* every such call returns, connected.
C9_RetriesForEver ==
    /\ [](RetryForEver => op_state # "raised")
    /\ []((RetryForEver /\ cr_pc = "final")
            => (mq_connection.set /\ mq_connection.open /\ mq_channel.set /\ mq_channel.open))
    /\ \A h \in Hosts :
         (<>[]Serves(h))
            => []((RetryForEver /\ op_state = "running")
                    => <>(RetryForEver /\ op_state = "returned"
                            /\ mq_connection.open /\ mq_channel.open))

\* a call with max_retry = 0 returned after more attempts than any limit
\* the callers pass would have allowed
C9_Witness ==
    /\ RetryForEver
    /\ op_state = "returned"
    /\ retry_count > MaxRetry

\* C10: the snapshots get_mq_servers returns between two updates of the
\* directory are all equal, record by record, whatever the callers have
\* done to the lists they were given.
C10_SnapshotsAgree ==
    /\ Cardinality(snap_log) <= 1
    /\ (edited = "copied again") => snap_log = {Deref(lists, recs, zk_mq_servers)}

\* a snapshot was taken, its caller changed it, and a snapshot was taken
\* again, the directory not updated in between
C10_Witness == edited = "copied again" /\ zk_pc["r1"] = "idle" /\ snap_log # {<< >>}

\* the threads between acquire() and release() of mq_servers_lock
InLock == {t \in Threads : zk_pc[t] \in {"set_assign", "set_release", "get_copy", "get_release"}}

\* C11: whatever the interleaving of the watch thread and the threads that
\* take snapshots, a snapshot is the whole list the last update assigned
\* before the snapshot took the lock (the empty list when there was none),
\* and at most one thread is between acquire() and release().
C11_SnapshotIsolation ==
    /\ Cardinality(InLock) <= 1
    /\ \A t \in InLock : mq_servers_lock = t
    /\ \A t \in Readers :
         zk_pc[t] = "get_release"
            => \E l \in rd_local[t] : Deref(lists, recs, l) = committed

\* one thread still holds the snapshot of an earlier update while another
\* has just copied the list of a later one, of two servers
C11_Witness ==
    /\ zk_pc["r1"] = "get_release"
    /\ Len(committed) = 2
    /\ \E l \in held["r2"] : Deref(lists, recs, l) # committed /\ Deref(lists, recs, l) # << >>

\* C12: an iteration of the upload loop that got a request whose first stage
\* is a queue, with an endpoint that takes the client (the publish
\* succeeds), leaves the error counter at 0, however many failures the loop
\* counted before it.
C12_SuccessResetsCounter ==
    (IterationOver /\ sl_scene.endpoint_up /\ sl_scene.routable) => error_count = 0

\* C13: when the callback has returned (on_message_receive returned and the
\* delivery was acked), the error counter is 0.
C13_HandledResetsCounter ==
    (op = "_mq_receive_result_callback" /\ op_state = "returned") => error_count = 0

\* C14: the last counted failure asked for a notification if and only if
\* the counter, after that failure was counted, is above max_error_count.
C14_NotifiesOnCrossing ==
    failure.kind = "counted" => (failure.asked <=> error_count > max_error_count)

\* C15: for the max_error_count the constructor was given, a counted failure
\* asks for a notification if and only if the counter it met was above that
\* value, and the loop passes that value plus one as max_retry when it
\* connects.
C15_LimitIsTheConstructorsValue ==
    /\ failure.kind = "counted"
          => (failure.asked <=> failure.before > arg_max_error_count)
    /\ (op = "start_uploading_requests" /\ sl_pc \in {"fatal", "return"}
           /\ sl_iteration \in {"open", "over"})
          => sl_scene.max_retry = arg_max_error_count + 1

\* C16: a step of the upload loop in which get_request raised the
\* recoverable error adds exactly one to the error counter, sleeps, leaves
\* the connection, the last publish, confirm_send and report_error alone,
\* and leaves the loop running, at get_request, its return status as it was.
C16_RecoverableGetGoesOn ==
    [][(sl_pc = "get" /\ error_count < MaxErrors
          /\ failure'.kind = "counted" /\ failure' # failure)
       => /\ error_count' = error_count + 1
          /\ failure'.slept
          /\ sl_pc' = "get"
          /\ op_state' = "running"
          /\ UNCHANGED << return_code, mq_connection, mq_channel, mc_tried, cr_trace,
                          publish, send, confirm_calls, report_calls >>]_vars

C16_Witness ==
    /\ op = "start_uploading_requests"
    /\ sl_pc = "get"
    /\ sl_iteration = "get failed"
    /\ failure.kind = "counted"
    /\ failure.before >= 1
    /\ error_count = failure.before + 1

\* C17: a step of the upload loop in which get_request returned nothing
\* changes neither the error counter, the connection, the return status, the
\* notifications, the last publish, confirm_send nor report_error, and
\* leaves the loop running, at get_request.
C17_EmptyIsNoError ==
    [][(sl_pc = "get" /\ sl_iteration # "empty" /\ sl_iteration' = "empty")
       => /\ sl_pc' = "get"
          /\ op_state' = "running"
          /\ UNCHANGED << error_count, return_code, notified, failure, mq_connection,
                          mq_channel, mc_tried, cr_trace, publish, send,
                          confirm_calls, report_calls >>]_vars

C17_Witness ==
    /\ op = "start_uploading_requests"
    /\ sl_pc = "get"
    /\ sl_iteration = "empty"
    /\ error_count > 0
    /\ IsConnected(mq_connection, mq_channel)

\* self.error_count += self.max_error_count + 1 (lines 154 and 316)
LargeStep(c) ==
    IF c + max_error_count + 1 < MaxErrors THEN c + max_error_count + 1 ELSE MaxErrors

\* C18: an iteration of the upload loop that got a request while the client
\* was not connected and no endpoint of the list took a client (the connect
\* gives up) ends with the error counter higher by max_error_count + 1 and
\* the loop going on, its return status 0.
C18_ExhaustedConnectGoesOn ==
    (IterationOver /\ ~sl_scene.connected /\ ~sl_scene.endpoint_up)
    => /\ error_count = LargeStep(sl_scene.error_count)
       /\ sl_pc = "get"
       /\ return_code = 0

\* C19: when the last failure a loop handled was an error of no class the
\* loop knows, a notification was asked for, whatever the counter was, the
\* loop has stopped and its return status is 1.
C19_UnclassifiedStops ==
    failure.kind = "unclassified"
    => /\ failure.asked
       /\ notified \cap {"Unrecoverable error has occured during request uploading!",
                         "Unrecoverable error has occured during result receiving!"} # {}
       /\ return_code = 1
       /\ sl_pc \in {"return", "idle"}
       /\ rl_pc \in {"return", "idle"}
       /\ op_state \in {"running", "returned"}

C19_Witness ==
    /\ op = "start_uploading_requests"
    /\ op_state = "returned"
    /\ failure.kind = "unclassified"
    /\ failure.before = 0
    /\ ~Exceeded(error_count)
    /\ return_code = 1

\* C20: a loop that KeyboardInterrupt has ended has stopped, and returns
\* (it does not raise) with return status 0.
C20_InterruptReturnsZero ==
    /\ (op = "start_uploading_requests" /\ sl_interrupted)
          => /\ sl_pc \in {"return", "idle"}
             /\ op_state \in {"running", "returned"}
             /\ return_code = 0
    /\ (op = "start_receiving_results" /\ rl_interrupted)
          => /\ rl_pc \in {"return", "idle"}
             /\ op_state \in {"running", "returned"}
             /\ return_code = 0

\* C21: when the callback has raised on a body that does not parse, the
\* delivery is nacked once, with requeue, and not acked, on_message_receive
\* was not called for it, and the exception the callback raised is one
\* after which the receive loop goes on (its handlers of lines 165 and 178),
\* not one that ends it.
C21_UndecodableIsRequeued ==
    (op = "_mq_receive_result_callback" /\ op_state = "raised"
        /\ ~deliveries[delivery_tag].parses)
    => /\ deliveries[delivery_tag].nacks = 1
       /\ deliveries[delivery_tag].requeue = {TRUE}
       /\ deliveries[delivery_tag].acks = 0
       /\ deliveries[delivery_tag].handler = "not called"
       /\ RlHandler("consume", op_exc) \in {"transport", "recoverable"}

\* the receive loop went to connect and has dealt with what came of it, and
\* no KeyboardInterrupt ended it
ReceiveIterationOver ==
    /\ op = "start_receiving_results"
    /\ rl_scene.set
    /\ rl_pc # "fatal"
    /\ ~rl_interrupted

\* C22: a receive loop that finds an endpoint that takes the client, and a
\* message in the result queue for which on_message_receive raises the
\* recoverable error, counts one error, sleeps, and goes on: it has not
\* stopped and its return status is 0.
C22_RecoverableReceiveGoesOn ==
    (ReceiveIterationOver /\ rl_scene.endpoint_up /\ rl_scene.pending = "recoverable")
    => /\ error_count = NextErrorCount(rl_scene.error_count)
       /\ failure.kind = "counted"
       /\ failure.slept
       /\ rl_pc \notin {"return", "idle"}
       /\ return_code = 0

\* C23: a receive loop that holds an open connection whose endpoint is gone
\* (the transport fails while it consumes) counts one error and goes on to
\* connect again: it has not stopped and its return status is 0.
C23_TransportFailureReconnects ==
    (ReceiveIterationOver /\ rl_scene.connected /\ ~rl_scene.endpoint_up)
    => /\ error_count = NextErrorCount(rl_scene.error_count)
       /\ rl_pc = "connect"
       /\ return_code = 0

\* C24: a request that mq_send_request is given again after a transport
\* error ended the call before keeps the start_time that call wrote.
C24_DispatchTimeSetOnce ==
    (SendCalled /\ send.failures > 0)
    => reqs[send.request].start_time = send.start_time_before

\* C29: a request that is published, after any number of calls a transport
\* error ended, goes out with the stages it had before the first of these
\* calls and the output queue after them, once.
C29_OutputQueueAppendedOnce ==
    (SendCalled /\ op_state = "returned")
    => publish.processing_stages = Append(send.original, send.output_queue_name)

\* C25: between two calls of send_mail that follow one another at least
\* mail_interval has passed; a call of send_mail_notification that comes
\* sooner calls nothing and leaves last_mail_time as it was; and a client
\* that lacks user, password, receivers or host never calls send_mail and
\* keeps the last_mail_time it was made with.
C25_MailInterval ==
    /\ \A i \in 1 .. Len(mail_log) - 1 :
         mail_log[i + 1].at - mail_log[i].at >= mail_interval
    /\ (mail_call.made /\ ~mail_call.attempted) => last_mail_time = mail_call.last_before
    /\ (mail_call.made /\ mail_call.attempted)
          => /\ ~Incomplete(mail_given)
             /\ mail_call.at - mail_call.last_before >= mail_interval
             /\ last_mail_time = mail_call.at
    /\ Incomplete(mail_given) => (mail_log = << >> /\ last_mail_time = EPOCH)

C25_Witness ==
    /\ mail_interval > 0
    /\ Len(mail_log) = 2
    /\ ~mail_log[1].sent
    /\ mail_call.made
    /\ ~mail_call.attempted
    /\ mail_call.at > mail_log[2].at

\* the closes the last mq_disconnect called
Closed == {disconnect.closes[i] : i \in 1 .. Len(disconnect.closes)}

\* C26: mq_disconnect closes the channel before the connection; it closes
\* the channel if and only if the channel was open and the connection only
\* if the connection was open; with neither open it closes nothing and
\* returns; when it has returned neither is open; and a mq_disconnect that
\* follows one that returned closes nothing and returns.
C26_DisconnectClosesInOrder ==
    op = "mq_disconnect"
    => /\ disconnect.closes \in {<< >>, << "channel" >>, << "connection" >>,
                                 << "channel", "connection" >>}
       /\ "channel" \in Closed <=> disconnect.channel_open
       /\ "connection" \in Closed => disconnect.connection_open
       /\ (disconnect.connection_open /\ op_state = "returned") => "connection" \in Closed
       /\ (~disconnect.channel_open /\ ~disconnect.connection_open)
             => (disconnect.closes = << >> /\ op_state = "returned")
       /\ op_state = "returned"
             => /\ ~(mq_channel.set /\ mq_channel.open)
                /\ ~(mq_connection.set /\ mq_connection.open)
       /\ disconnect.again => (disconnect.closes = << >> /\ op_state = "returned")

C26_Witness ==
    /\ op = "mq_disconnect"
    /\ op_state = "returned"
    /\ disconnect.again
    /\ disconnect.closes_before = << "channel", "connection" >>
    /\ disconnect.closes = << >>

\* C27: when mq_connect has returned after every endpoint of its list
\* failed, the client holds no open connection and no open channel.
C27_AllFailedLeavesNothingOpen ==
    (ConnectReturned /\ mc_tried # << >> /\ Len(mc_tried) = Len(mc_snapshot)
        /\ \A k \in 1 .. Len(mc_tried) : mc_tried[k].outcome # "accept")
    => /\ ~(mq_connection.set /\ mq_connection.open)
       /\ ~(mq_channel.set /\ mq_channel.open)

\* C28: a call of start_uploading_requests or start_receiving_results is
\* running or has returned, with return status 0 or 1: it never ends with
\* an exception.
C28_NoErrorEscapes ==
    op \in {"start_uploading_requests", "start_receiving_results"}
    => /\ op_state \in {"running", "returned"}
       /\ op_exc = ""
       /\ return_code \in {0, 1}

\* the list the last update assigned names host h, and the endpoint there
\* takes clients
Listed(h) ==
    /\ \E i \in 1 .. Len(committed) : committed[i].host = h
    /\ broker[h] = "accept"

\* mq_connect_retry is at its loop test: an attempt is still to be made
\* unless connection and channel are open
AttemptsRemain == op = "mq_connect_retry" /\ op_state = "running" /\ cr_pc = "test"

\* the steps of one connect attempt: it starts with the list the last
\* update assigned, no step taken while it iterates (an update least of
\* all) changes that list, and the endpoints it tries are those of the
\* list, in order
AttemptKeepsItsList ==
    /\ (mc_pc # "iter" /\ mc_pc' = "iter") => mc_snapshot' = committed'
    /\ (mc_pc = "iter" /\ mc_pc' # "idle")
          => (mc_snapshot' = mc_snapshot /\ TriedInListOrder')

FirstListed(h) ==
    \E i \in 1 .. Len(committed) :
        /\ committed[i].host = h
        /\ broker[h] = "accept"
        /\ \A j \in 1 .. i - 1 : broker[committed[j].host] # "accept"

=============================================================================
